---- MODULE Spec2Model ----
(***************************************************************************)
(* Incremental transcription -> refinement -> translation pipeline of the  *)
(* live interpreter application: the speech hook (useSpeechRecognition)    *)
(* and the dual-cursor orchestrator of App.tsx.                            *)
(*                                                                         *)
(* Strings are sequences of one-character strings; offsets are 0-based as  *)
(* in the source, so the JavaScript slice(a, b) is Slice(s, a, b).         *)
(***************************************************************************)
EXTENDS Integers, Sequences, FiniteSets, TLC

(***************************************************************************)
(* Bounds of the model.                                                    *)
(***************************************************************************)
MaxText == 11
MaxOut == 3
MaxUserOps == 2
MaxSegText == 60
MaxSegPrev == 4
MaxCommitPrev == 10
MaxWords == 3
MaxErrorRun == 6
MaxRestartTimers == 6
TicksPerSecond == 2

(***************************************************************************)
(* Program constants.                                                      *)
(***************************************************************************)
MAX_CHARS_PER_FRAGMENT == 15
SplitFloor == 5
RetryCount == 3
RetryBaseDelay == 1000
RefineArmMargin == 5
RefineThresholdSlow == 5
RefineThresholdFast == 10
RefineVelocityLimit == 30
CadenceVelocityLimit == 40
CadenceFast == 50
CadenceSlow == 100
RestartCap == 5

(***************************************************************************)
(* JavaScript string primitives.                                           *)
(***************************************************************************)
Min(a, b) == IF a < b THEN a ELSE b
Max(a, b) == IF a > b THEN a ELSE b

Whitespace == {" ", "\n"}
TerminalPunct == {".", "!", "?"}

\* String.prototype.slice(from, to) for non-negative arguments.
Slice(s, from, to) ==
    LET t == Min(to, Len(s))
    IN  IF from >= t THEN <<>> ELSE SubSeq(s, from + 1, t)

SliceFrom(s, from) == Slice(s, from, Len(s))

RECURSIVE TrimEnd(_)
TrimEnd(s) ==
    IF s = <<>> THEN s
    ELSE IF s[Len(s)] \in Whitespace THEN TrimEnd(SubSeq(s, 1, Len(s) - 1))
    ELSE s

RECURSIVE TrimStart(_)
TrimStart(s) ==
    IF s = <<>> THEN s
    ELSE IF Head(s) \in Whitespace THEN TrimStart(Tail(s))
    ELSE s

Trim(s) == TrimStart(TrimEnd(s))

EndsWithNewline(s) == s # <<>> /\ s[Len(s)] = "\n"

\* String.prototype.lastIndexOf(" ", from): 0-based index or -1.
LastIndexOfSpace(s, from) ==
    LET hits == {i \in 0..Min(from, Len(s) - 1) : s[i + 1] = " "}
    IN  IF hits = {} THEN -1 ELSE CHOOSE i \in hits : \A j \in hits : j <= i

LowerCase ==
    <<"a", "b", "c", "d", "e", "f", "g", "h", "i", "j", "k", "l", "m",
      "n", "o", "p", "q", "r", "s", "t", "u", "v", "w", "x", "y", "z">>
UpperCase ==
    <<"A", "B", "C", "D", "E", "F", "G", "H", "I", "J", "K", "L", "M",
      "N", "O", "P", "Q", "R", "S", "T", "U", "V", "W", "X", "Y", "Z">>

\* String.prototype.toUpperCase() of one character.
toUpperCase(c) ==
    IF \E i \in 1..26 : LowerCase[i] = c
    THEN UpperCase[CHOOSE i \in 1..26 : LowerCase[i] = c]
    ELSE c

capitalize(s) ==
    IF s = <<>> THEN s
    ELSE <<toUpperCase(Head(s))>> \o Tail(s)

(***************************************************************************)
(* Segmenter: the setText updater of recognition.onresult.                 *)
(***************************************************************************)
\* Index (1-based) of the first terminal punctuation at or after i, or 0.
RECURSIVE FirstTerminal(_, _)
FirstTerminal(s, i) ==
    IF i > Len(s) THEN 0
    ELSE IF s[i] \in TerminalPunct THEN i
    ELSE FirstTerminal(s, i + 1)

\* Index (1-based) of the last character of the whitespace run starting at i.
RECURSIVE SkipWhitespace(_, _)
SkipWhitespace(s, i) ==
    IF i <= Len(s) /\ s[i] \in Whitespace THEN SkipWhitespace(s, i + 1) ELSE i - 1

\* chunk.match(/([^.!?]+[.!?]\s*|[^.!?]+$)/g) scanning from position i.
RECURSIVE MatchSentences(_, _)
MatchSentences(s, i) ==
    IF i > Len(s) THEN <<>>
    ELSE IF s[i] \in TerminalPunct THEN MatchSentences(s, i + 1)
    ELSE LET t == FirstTerminal(s, i)
         IN  IF t = 0 THEN <<SubSeq(s, i, Len(s))>>
             ELSE LET e == SkipWhitespace(s, t + 1)
                  IN  <<SubSeq(s, i, e)>> \o MatchSentences(s, e + 1)

sentenceRegex(chunk) ==
    LET m == MatchSentences(chunk, 1)
    IN  IF m = <<>> THEN <<chunk>> ELSE m

\* splitIndex searching the whole string for the last space.
splitIndex_Anywhere(str) ==
    LET i == LastIndexOfSpace(str, Len(str))
    IN  IF i = -1 \/ i < SplitFloor THEN MAX_CHARS_PER_FRAGMENT ELSE i

\* splitIndex without the floor of 5 under the space it accepts.
splitIndex_NoFloor(str) ==
    LET i == LastIndexOfSpace(str, MAX_CHARS_PER_FRAGMENT)
    IN  IF i = -1 THEN MAX_CHARS_PER_FRAGMENT ELSE i

\* splitIndex accepting any space but one at index 0.
splitIndex_LowFloor(str) ==
    LET i == LastIndexOfSpace(str, MAX_CHARS_PER_FRAGMENT)
    IN  IF i = -1 \/ i < 1 THEN MAX_CHARS_PER_FRAGMENT ELSE i

splitIndex(str) ==
    LET i == LastIndexOfSpace(str, MAX_CHARS_PER_FRAGMENT)
    IN  IF i = -1 \/ i < SplitFloor THEN MAX_CHARS_PER_FRAGMENT ELSE i

\* The while loop that force-splits one sentence.
RECURSIVE ForceSplit(_)
ForceSplit(str) ==
    IF Len(str) > MAX_CHARS_PER_FRAGMENT
    THEN <<Trim(Slice(str, 0, splitIndex(str)))>>
            \o ForceSplit(Trim(SliceFrom(str, splitIndex(str))))
    ELSE IF Len(str) > 0 THEN <<str>> ELSE <<>>

\* The values `str` has when the while loop cuts it, for one sentence.
RECURSIVE LoopStates(_)
LoopStates(str) ==
    IF Len(str) > MAX_CHARS_PER_FRAGMENT
    THEN <<str>> \o LoopStates(Trim(SliceFrom(str, splitIndex(str))))
    ELSE <<>>

RECURSIVE processedSentences(_)
processedSentences(sentences) ==
    IF sentences = <<>> THEN <<>>
    ELSE ForceSplit(Trim(Head(sentences))) \o processedSentences(Tail(sentences))

RECURSIVE JoinFragments(_, _)
JoinFragments(full, frags) ==
    IF frags = <<>> THEN full
    ELSE LET fragment == capitalize(Trim(Head(frags)))
         IN  IF fragment = <<>> THEN JoinFragments(full, Tail(frags))
             ELSE JoinFragments(full \o (IF full # <<>> THEN <<"\n">> ELSE <<>>) \o fragment,
                                Tail(frags))

\* AppendFinal joining the fragments to the buffer as it stands, untrimmed.
AppendFinal_KeepsTail(prev, finalChunk) ==
    LET chunk == Trim(finalChunk)
    IN  IF chunk = <<>> THEN prev
        ELSE JoinFragments(prev, processedSentences(sentenceRegex(chunk)))

\* setText(prev => ...) of onresult for a final chunk.
AppendFinal(prev, finalChunk) ==
    LET chunk == Trim(finalChunk)
    IN  IF chunk = <<>> THEN prev
        ELSE JoinFragments(TrimEnd(prev), processedSentences(sentenceRegex(chunk)))

(***************************************************************************)
(* Inputs of the model: what the speech provider, the completion service   *)
(* and the user may hand to the program.                                   *)
(***************************************************************************)
FinalChunks == { <<"w", "o", "r", "l", "d">> }

\* Finalized chunks for the Segmenter: up to MaxWords words of these lengths,
\* single-spaced, alone or behind a short first sentence, and a chunk with
\* repeated terminal punctuation.
WordLengths == {4, 10, 15, 16}
Word(n) == [i \in 1..n |-> "a"]
RECURSIVE Words(_)
Words(lens) ==
    IF lens = <<>> THEN <<>>
    ELSE IF Len(lens) = 1 THEN Word(Head(lens))
    ELSE Word(Head(lens)) \o <<" ">> \o Words(Tail(lens))
WordLists == UNION { [1..n -> WordLengths] : n \in 1..MaxWords }
PunctuatedChunks ==
    { <<"w", "a", "i", "t", ".", ".", ".", " ", "w", "h", "a", "t", "?">> }
SegmenterChunks ==
    { Words(l) : l \in WordLists }
        \cup { <<"o", "k", ".", " ">> \o Words(l) : l \in [1..2 -> WordLengths] }
        \cup PunctuatedChunks
\* What the user may leave in the translation area: blank output, and output
\* followed by a space or a break.
TranslatedEdits == { <<" ">>, <<"v", " ">>, <<"v", "\n">> }
InterimChunks == { <<"u", "m">> }
RefineResponses == { <<"O", "k", ".">>, <<" ">>, <<>> }
TranslateResponses == { <<"v">>, <<" ">>, <<>> }
FailureKinds == {"rate", "other"}
SessionIds == {1, 2}
NoSession == 0
Advisory == "Interpretation lag detected."
NoError == "null"
NoData == [present |-> FALSE]

VARIABLES
    status,                 \* TranscriptionStatus of the speech hook
    listening,              \* the speech provider is started and has not ended
    text,                   \* the transcript buffer
    interimText,
    velocity,
    lastLengthRef,
    intervalAge,            \* ticks since the velocity interval was set or last fired
    silenceTimer,           \* the silence-commit timeout is pending
    restartCount,           \* restartCount.current: reconnects since the last result
    restartTimers,          \* delayed reconnect timeouts that are pending
    errorRun,               \* provider errors in a row while recording (history)
    translatedText,         \* the output buffer
    refinedRef,             \* refinedUpTo
    processedRef,           \* translatedUpTo
    refiningInProgressRef,
    translatingRef,
    isTranslating,          \* React state behind the Sync Now button
    batchFileProcessing,    \* an audio upload is being transcribed
    withinMinInterval,      \* Date.now() - lastRequestTimeRef < minIntervalRef
    refineTimeoutRef,       \* the refine debounce timeout is pending
    refineArmedText,        \* `text` in the closure the pending refine timeout calls
    retryTimeoutRef,        \* the translate cadence / reschedule timeout is pending
    cycle,                  \* delay the orchestration effect last armed that timeout with
    refineCalls,            \* outstanding refine calls
    translateCalls,         \* outstanding translate calls
    aiError,
    activeSessionId,
    storage,                \* localStorage: session id -> SessionData
    userOps                 \* how many times the user has intervened in the transcript

providerVars == <<restartCount, restartTimers, errorRun>>
hookVars == <<status, listening, text, interimText, velocity, lastLengthRef, intervalAge,
              silenceTimer, providerVars>>
appVars == <<translatedText, refinedRef, processedRef, refiningInProgressRef,
             translatingRef, isTranslating, batchFileProcessing, withinMinInterval,
             refineTimeoutRef, refineArmedText, retryTimeoutRef, cycle, refineCalls,
             translateCalls, aiError, activeSessionId, storage, userOps>>
vars == <<hookVars, appVars>>

Init ==
    /\ status = "IDLE"
    /\ listening = FALSE
    /\ text = <<>>
    /\ interimText = <<>>
    /\ velocity = 0
    /\ lastLengthRef = 0
    /\ intervalAge = 0
    /\ silenceTimer = FALSE
    /\ restartCount = 0
    /\ restartTimers = 0
    /\ errorRun = 0
    /\ translatedText = <<>>
    /\ refinedRef = 0
    /\ processedRef = 0
    /\ refiningInProgressRef = FALSE
    /\ translatingRef = FALSE
    /\ isTranslating = FALSE
    /\ batchFileProcessing = FALSE
    /\ withinMinInterval = FALSE
    /\ refineTimeoutRef = FALSE
    /\ refineArmedText = <<>>
    /\ retryTimeoutRef = FALSE
    /\ cycle = 0
    /\ refineCalls = <<>>
    /\ translateCalls = <<>>
    /\ aiError = NoError
    /\ activeSessionId = NoSession
    /\ storage = [id \in SessionIds |-> NoData]
    /\ userOps = 0

RemoveAt(seq, i) == SubSeq(seq, 1, i - 1) \o SubSeq(seq, i + 1, Len(seq))

(***************************************************************************)
(* The effects React re-runs after a render whose dependencies changed.    *)
(* Each reads the primed variables of the step, so it comes last.          *)
(***************************************************************************)
\* useEffect(..., [status, text.length]): the branch taken when not recording.
VelocityEffect ==
    velocity' = IF status' # "RECORDING"
                   /\ (status' # status \/ Len(text') # Len(text))
                THEN 0 ELSE velocity

\* useEffect(..., [status, text.length]): cleanup clears the interval and the
\* body sets a new one, which first fires a second later.
IntervalEffect ==
    intervalAge' = IF status' # status \/ Len(text') # Len(text) THEN 0 ELSE intervalAge

\* The silence effect arming without clearing the timeout it armed before.
SilenceEffect_NoCancel ==
    IF <<text', interimText', status'>> # <<text, interimText, status>>
    THEN silenceTimer' = (silenceTimer \/ (status' = "RECORDING" /\ interimText' = <<>>))
    ELSE silenceTimer' = silenceTimer

\* useEffect(..., [text, interimText, status]): the silence-commit timer.
SilenceEffect ==
    IF <<text', interimText', status'>> # <<text, interimText, status>>
    THEN silenceTimer' = (status' = "RECORDING" /\ interimText' = <<>>)
    ELSE silenceTimer' = silenceTimer

\* `cycle` with the velocity limit belonging to the fast cadence.
TranslateCycle_Inclusive(v) ==
    IF v >= CadenceVelocityLimit THEN CadenceFast ELSE CadenceSlow

\* `cycle` of the orchestration effect: the translate cadence for a velocity.
TranslateCycle(v) == IF v > CadenceVelocityLimit THEN CadenceFast ELSE CadenceSlow

\* The orchestration effect with a pending refine timeout left to run: it
\* keeps the closure of the render that armed it.
OrchestrationEffect_KeepsTimer ==
    IF text' # text \/ velocity' # velocity
    THEN /\ refineTimeoutRef' = (refineTimeoutRef
                                 \/ (~refiningInProgressRef'
                                     /\ Len(text') > refinedRef' + RefineArmMargin))
         /\ refineArmedText' = IF refineTimeoutRef THEN refineArmedText
                               ELSE IF refineTimeoutRef' THEN text' ELSE <<>>
         /\ retryTimeoutRef' = (~translatingRef' /\ refinedRef' > processedRef')
         /\ cycle' = IF retryTimeoutRef' THEN TranslateCycle(velocity') ELSE cycle
    ELSE UNCHANGED <<refineTimeoutRef, refineArmedText, retryTimeoutRef, cycle>>

\* The orchestration effect: cleanup clears both timeouts, the body re-arms.
\* The refine timeout calls the refineEnglishTranscript of the render the
\* effect ran in, whose closure holds that render's text.
OrchestrationEffect ==
    IF text' # text \/ velocity' # velocity
    THEN /\ refineTimeoutRef' = (~refiningInProgressRef'
                                 /\ Len(text') > refinedRef' + RefineArmMargin)
         /\ refineArmedText' = IF refineTimeoutRef' THEN text' ELSE <<>>
         /\ retryTimeoutRef' = (~translatingRef' /\ refinedRef' > processedRef')
         /\ cycle' = IF retryTimeoutRef' THEN TranslateCycle(velocity') ELSE cycle
    ELSE UNCHANGED <<refineTimeoutRef, refineArmedText, retryTimeoutRef, cycle>>

Effects == VelocityEffect /\ IntervalEffect /\ SilenceEffect /\ OrchestrationEffect

\* A call in flight no longer belongs to the transcript it was dispatched for.
MarkStale(calls) == [i \in 1..Len(calls) |-> [calls[i] EXCEPT !.stale = TRUE]]

(***************************************************************************)
(* Speech hook: recording controls and provider events.                    *)
(***************************************************************************)
startRecording ==
    /\ status # "RECORDING"
    /\ status' = "RECORDING"
    /\ listening' = TRUE
    /\ restartCount' = 0
    /\ errorRun' = 0
    /\ UNCHANGED restartTimers
    /\ UNCHANGED <<text, interimText, lastLengthRef>>
    /\ UNCHANGED <<translatedText, refinedRef, processedRef, refiningInProgressRef,
                   translatingRef, isTranslating, batchFileProcessing, withinMinInterval,
                   refineCalls, translateCalls, aiError, activeSessionId, storage, userOps>>
    /\ Effects

pauseRecording ==
    /\ status = "RECORDING"
    /\ status' = "PAUSED"
    /\ UNCHANGED <<listening, text, interimText, lastLengthRef>>
    /\ UNCHANGED providerVars
    /\ UNCHANGED <<translatedText, refinedRef, processedRef, refiningInProgressRef,
                   translatingRef, isTranslating, batchFileProcessing, withinMinInterval,
                   refineCalls, translateCalls, aiError, activeSessionId, storage, userOps>>
    /\ Effects

stopRecording ==
    /\ status \in {"RECORDING", "PAUSED"}
    /\ status' = "STOPPED"
    /\ interimText' = <<>>
    /\ UNCHANGED <<listening, text, lastLengthRef>>
    /\ UNCHANGED providerVars
    /\ UNCHANGED <<translatedText, refinedRef, processedRef, refiningInProgressRef,
                   translatingRef, isTranslating, batchFileProcessing, withinMinInterval,
                   refineCalls, translateCalls, aiError, activeSessionId, storage, userOps>>
    /\ Effects

\* The provider's stream ends: after stop(), after an error, or on its own.
streamEnds ==
    /\ listening
    /\ listening' = FALSE
    /\ UNCHANGED <<status, text, interimText, velocity, lastLengthRef, intervalAge,
                   silenceTimer>>
    /\ UNCHANGED providerVars
    /\ UNCHANGED appVars

\* recognition.onend, handling the end of the stream: recognition.start() while
\* recording, whatever restartCount is.
onend ==
    /\ ~listening
    /\ listening' = (status = "RECORDING")
    /\ UNCHANGED <<status, text, interimText, velocity, lastLengthRef, intervalAge,
                   silenceTimer>>
    /\ UNCHANGED providerVars
    /\ UNCHANGED appVars

\* The test of recognition.onerror that lets it schedule a reconnect, made with
\* the cap included.
ShouldReconnect_Inclusive == status = "RECORDING" /\ restartCount <= RestartCap

\* The test of recognition.onerror that lets it schedule a reconnect.
ShouldReconnect == status = "RECORDING" /\ restartCount < RestartCap

\* recognition.onerror: one more error; a reconnect is scheduled 250 ms later
\* while the counter is below the cap.
onerror ==
    /\ listening
    /\ errorRun < MaxErrorRun
    /\ restartTimers < MaxRestartTimers
    /\ errorRun' = IF status = "RECORDING" THEN errorRun + 1 ELSE errorRun
    /\ IF ShouldReconnect
       THEN /\ restartCount' = restartCount + 1
            /\ restartTimers' = restartTimers + 1
       ELSE UNCHANGED <<restartCount, restartTimers>>
    /\ UNCHANGED <<status, listening, text, interimText, velocity, lastLengthRef,
                   intervalAge, silenceTimer>>
    /\ UNCHANGED appVars

\* A reconnect timeout fires: recognition.start(), whatever the status is now.
restartTimerFires ==
    /\ restartTimers > 0
    /\ restartTimers' = restartTimers - 1
    /\ listening' = TRUE
    /\ UNCHANGED <<status, text, interimText, velocity, lastLengthRef, intervalAge, silenceTimer,
                   restartCount, errorRun>>
    /\ UNCHANGED appVars

\* recognition.onresult with a final chunk, while the buffer stays within limit.
onresultFinalWithin(finalChunk, limit) ==
    /\ listening
    /\ Len(AppendFinal(text, finalChunk)) <= limit
    /\ text' = AppendFinal(text, finalChunk)
    /\ interimText' = <<>>
    /\ UNCHANGED <<status, listening, lastLengthRef>>
    /\ restartCount' = 0
    /\ errorRun' = 0
    /\ UNCHANGED restartTimers
    /\ UNCHANGED <<translatedText, refinedRef, processedRef, refiningInProgressRef,
                   translatingRef, isTranslating, batchFileProcessing, withinMinInterval,
                   refineCalls, translateCalls, aiError, activeSessionId, storage, userOps>>
    /\ Effects

onresultFinal(finalChunk) == onresultFinalWithin(finalChunk, MaxText)

\* onresult with interim text leaving the restart counter as it is.
onresultInterim_KeepsCount(interimChunk) ==
    /\ listening
    /\ interimText' = interimChunk
    /\ UNCHANGED <<status, listening, text, lastLengthRef>>
    /\ UNCHANGED <<restartCount, errorRun, restartTimers>>
    /\ UNCHANGED <<translatedText, refinedRef, processedRef, refiningInProgressRef,
                   translatingRef, isTranslating, batchFileProcessing, withinMinInterval,
                   refineCalls, translateCalls, aiError, activeSessionId, storage, userOps>>
    /\ Effects

\* recognition.onresult with interim text only.
onresultInterim(interimChunk) ==
    /\ listening
    /\ interimText' = interimChunk
    /\ UNCHANGED <<status, listening, text, lastLengthRef>>
    /\ restartCount' = 0
    /\ errorRun' = 0
    /\ UNCHANGED restartTimers
    /\ UNCHANGED <<translatedText, refinedRef, processedRef, refiningInProgressRef,
                   translatingRef, isTranslating, batchFileProcessing, withinMinInterval,
                   refineCalls, translateCalls, aiError, activeSessionId, storage, userOps>>
    /\ Effects

\* The silence commit appending its break to whatever the buffer holds.
SilenceCommitText_Append(prev) == prev \o <<"\n">>

\* setText(prev => ...) of the silence-commit timeout.
SilenceCommitText(prev) ==
    LET trimmed == TrimEnd(prev)
    IN  IF Len(trimmed) > 0 /\ ~EndsWithNewline(trimmed)
        THEN trimmed \o <<"\n">>
        ELSE prev

silenceCommit ==
    /\ silenceTimer
    /\ text' = SilenceCommitText(text)
    /\ UNCHANGED <<status, listening, interimText, lastLengthRef>>
    /\ UNCHANGED providerVars
    /\ UNCHANGED <<translatedText, refinedRef, processedRef, refiningInProgressRef,
                   translatingRef, isTranslating, batchFileProcessing, withinMinInterval,
                   refineCalls, translateCalls, aiError, activeSessionId, storage, userOps>>
    /\ velocity' = velocity
    /\ IntervalEffect
    /\ silenceTimer' = (text' # text /\ status = "RECORDING" /\ interimText = <<>>)
    /\ OrchestrationEffect

\* The 1-second interval publishing the difference as it is, below 0 too.
velocitySample_Signed ==
    /\ status = "RECORDING"
    /\ velocity' = Len(text) - lastLengthRef
    /\ lastLengthRef' = Len(text)
    /\ intervalAge' = 0
    /\ UNCHANGED <<status, listening, text, interimText, silenceTimer>>
    /\ UNCHANGED providerVars
    /\ UNCHANGED <<translatedText, refinedRef, processedRef, refiningInProgressRef,
                   translatingRef, isTranslating, batchFileProcessing, withinMinInterval,
                   refineCalls, translateCalls, aiError, activeSessionId, storage, userOps>>
    /\ OrchestrationEffect

\* The 1-second interval of the velocity effect.
velocitySample ==
    /\ status = "RECORDING"
    /\ velocity' = Max(0, Len(text) - lastLengthRef)
    /\ lastLengthRef' = Len(text)
    /\ intervalAge' = 0
    /\ UNCHANGED <<status, listening, text, interimText, silenceTimer>>
    /\ UNCHANGED providerVars
    /\ UNCHANGED <<translatedText, refinedRef, processedRef, refiningInProgressRef,
                   translatingRef, isTranslating, batchFileProcessing, withinMinInterval,
                   refineCalls, translateCalls, aiError, activeSessionId, storage, userOps>>
    /\ OrchestrationEffect

\* Time passes while the interval waits for its second to be over.
timePasses ==
    /\ status = "RECORDING"
    /\ intervalAge < TicksPerSecond
    /\ intervalAge' = intervalAge + 1
    /\ UNCHANGED <<status, listening, text, interimText, velocity, lastLengthRef,
                   silenceTimer>>
    /\ UNCHANGED providerVars
    /\ UNCHANGED appVars

\* The interval fires when its second is over.
intervalFires == intervalAge = TicksPerSecond /\ velocitySample

(***************************************************************************)
(* retryWithBackoff: the retry state a wrapped call carries.               *)
(***************************************************************************)
isQuota(kind) == kind = "rate"

\* The catch branch retrying whatever the failure is.
ShouldRetry_AnyFailure(kind, retries) == retries > 0

\* catch branch of retryWithBackoff: wait and call again, or rethrow.
ShouldRetry(kind, retries) == isQuota(kind) /\ retries > 0

(***************************************************************************)
(* Refine stage: refineEnglishTranscript.                                  *)
(***************************************************************************)
\* minThreshold without the rise at high velocity.
minThreshold_Flat == RefineThresholdSlow

\* `minThreshold` of refineEnglishTranscript.
minThreshold == IF velocity > RefineVelocityLimit THEN RefineThresholdFast
                ELSE RefineThresholdSlow

\* `const raw = text`: the text of the closure the refine timeout calls.
raw == refineArmedText

unrefinedChunk == Trim(SliceFrom(raw, refinedRef))

RefineGuard == ~refiningInProgressRef

\* The refine debounce timeout fires and refineEnglishTranscript runs.
refineEnglishTranscript ==
    /\ refineTimeoutRef
    /\ refineTimeoutRef' = FALSE
    /\ refineArmedText' = <<>>
    /\ IF RefineGuard /\ Len(unrefinedChunk) >= minThreshold
       THEN /\ refiningInProgressRef' = TRUE
            /\ refineCalls' = Append(refineCalls,
                    [raw |-> raw, retries |-> RetryCount, delay |-> RetryBaseDelay,
                     waits |-> <<>>, stale |-> FALSE])
       ELSE UNCHANGED <<refiningInProgressRef, refineCalls>>
    /\ UNCHANGED hookVars
    /\ UNCHANGED <<translatedText, refinedRef, processedRef, translatingRef, isTranslating,
                   batchFileProcessing, withinMinInterval, retryTimeoutRef, cycle, translateCalls,
                   aiError, activeSessionId, storage, userOps>>

\* refineRetry with the in-flight flag cleared when the retry is scheduled.
refineRetry_ClearsFlag(i, kind) ==
    /\ i \in 1..Len(refineCalls)
    /\ ShouldRetry(kind, refineCalls[i].retries)
    /\ refineCalls' = [refineCalls EXCEPT ![i].retries = @ - 1,
                                          ![i].delay = @ * 2,
                                          ![i].waits = Append(@, refineCalls[i].delay)]
    /\ refiningInProgressRef' = FALSE
    /\ UNCHANGED hookVars
    /\ UNCHANGED <<translatedText, refinedRef, processedRef,
                   translatingRef, isTranslating, batchFileProcessing, withinMinInterval,
                   refineTimeoutRef, refineArmedText, retryTimeoutRef, cycle, translateCalls, aiError,
                   activeSessionId, storage, userOps>>

\* The service rejects a refine call with a failure retryWithBackoff retries:
\* it waits `delay` and calls again with one retry less and twice the delay.
refineRetry(i, kind) ==
    /\ i \in 1..Len(refineCalls)
    /\ ShouldRetry(kind, refineCalls[i].retries)
    /\ refineCalls' = [refineCalls EXCEPT ![i].retries = @ - 1,
                                          ![i].delay = @ * 2,
                                          ![i].waits = Append(@, refineCalls[i].delay)]
    /\ UNCHANGED hookVars
    /\ UNCHANGED <<translatedText, refinedRef, processedRef, refiningInProgressRef,
                   translatingRef, isTranslating, batchFileProcessing, withinMinInterval,
                   refineTimeoutRef, refineArmedText, retryTimeoutRef, cycle, translateCalls, aiError,
                   activeSessionId, storage, userOps>>

\* refineFails with the refined cursor moved over the buffer as on a success.
refineFails_Advances(i, kind) ==
    /\ i \in 1..Len(refineCalls)
    /\ ~ShouldRetry(kind, refineCalls[i].retries)
    /\ refineCalls' = RemoveAt(refineCalls, i)
    /\ refiningInProgressRef' = FALSE
    /\ refinedRef' = Len(text)
    /\ UNCHANGED hookVars
    /\ UNCHANGED <<translatedText, processedRef, translatingRef, isTranslating,
                   batchFileProcessing, withinMinInterval, refineTimeoutRef, refineArmedText,
                   retryTimeoutRef, cycle, translateCalls, aiError, activeSessionId, storage, userOps>>

\* catch + finally of refineEnglishTranscript: the failure is only logged.
refineFails(i, kind) ==
    /\ i \in 1..Len(refineCalls)
    /\ ~ShouldRetry(kind, refineCalls[i].retries)
    /\ refineCalls' = RemoveAt(refineCalls, i)
    /\ refiningInProgressRef' = FALSE
    /\ UNCHANGED hookVars
    /\ UNCHANGED <<translatedText, refinedRef, processedRef, translatingRef, isTranslating,
                   batchFileProcessing, withinMinInterval, refineTimeoutRef, refineArmedText,
                   retryTimeoutRef, cycle, translateCalls, aiError, activeSessionId, storage, userOps>>

\* setText(prev => ...) of a successful refine call.
RefineHead(prev) == Slice(prev, 0, refinedRef)

RefineWrite(prev, refined) ==
    LET head == RefineHead(prev)
        separator == IF EndsWithNewline(head) \/ head = <<>> THEN <<>> ELSE <<" ">>
    IN  head \o separator \o refined

\* The service answers a refine call; try body + finally.
refineSucceeds(i, resText) ==
    /\ i \in 1..Len(refineCalls)
    /\ refineCalls' = RemoveAt(refineCalls, i)
    /\ refiningInProgressRef' = FALSE
    /\ IF resText # <<>>
       THEN /\ text' = RefineWrite(text, Trim(resText))
            /\ refinedRef' = Len(text')
       ELSE UNCHANGED <<text, refinedRef>>
    /\ UNCHANGED <<status, listening, interimText, lastLengthRef>>
    /\ UNCHANGED providerVars
    /\ UNCHANGED <<translatedText, processedRef, translatingRef, isTranslating,
                   batchFileProcessing, withinMinInterval, translateCalls, aiError,
                   activeSessionId, storage, userOps>>
    /\ Effects

(***************************************************************************)
(* Translate stage: performTranslation(isBatchRequest).                    *)
(***************************************************************************)
\* First early return: the single-flight check of performTranslation.
TranslateBusy(isBatchRequest) == translatingRef /\ ~isBatchRequest

\* The spacing test never holding a call back.
TooSoon_Never(isBatchRequest) == FALSE

\* Second early return: the minimum spacing between dispatched calls.
TooSoon(isBatchRequest) == ~isBatchRequest /\ withinMinInterval

\* endPoint taking the whole buffer for every call.
endPoint_Whole(isBatchRequest) == Len(text)

endPoint(isBatchRequest) == IF isBatchRequest THEN Len(text) ELSE refinedRef

TranslateChunk(isBatchRequest) == Slice(text, processedRef, endPoint(isBatchRequest))

\* The output buffer has room for what the outstanding calls and one more may add.
OutRoom == Len(translatedText) + 2 * Len(translateCalls) < MaxOut

\* From `const sourceText = text` to the await of generateContent.
TranslateDispatch(isBatchRequest) ==
    IF Len(Trim(TranslateChunk(isBatchRequest))) = 0
    THEN UNCHANGED <<translatingRef, isTranslating, withinMinInterval, translateCalls>>
    ELSE /\ translatingRef' = TRUE
         /\ isTranslating' = TRUE
         /\ withinMinInterval' = TRUE
         /\ translateCalls' = Append(translateCalls,
                 [start |-> processedRef, endPoint |-> endPoint(isBatchRequest),
                  forced |-> isBatchRequest, stale |-> FALSE])

\* The body of performTranslation up to the await; `pending` is whether the
\* timeout of retryTimeoutRef is still pending when the function is entered.
PerformTranslationBody(isBatchRequest, pending) ==
    IF TranslateBusy(isBatchRequest)
    THEN /\ retryTimeoutRef' = pending
         /\ UNCHANGED <<translatingRef, isTranslating, withinMinInterval, translateCalls>>
    ELSE IF TooSoon(isBatchRequest)
    THEN /\ retryTimeoutRef' = TRUE
         /\ UNCHANGED <<translatingRef, isTranslating, withinMinInterval, translateCalls>>
    ELSE /\ retryTimeoutRef' = pending
         /\ TranslateDispatch(isBatchRequest)

\* The cadence (or reschedule) timeout fires: performTranslation().
performTranslation ==
    /\ retryTimeoutRef
    /\ OutRoom
    /\ PerformTranslationBody(FALSE, FALSE)
    /\ UNCHANGED cycle
    /\ UNCHANGED hookVars
    /\ UNCHANGED <<translatedText, refinedRef, processedRef, refiningInProgressRef,
                   batchFileProcessing, refineTimeoutRef, refineArmedText, refineCalls, aiError,
                   activeSessionId, storage, userOps>>

\* The Sync Now button of Controls is enabled.
SyncNowEnabled == Len(text) > 0 /\ ~isTranslating

\* The force sync held to the minimum spacing like an automatic call.
forceSync_Spaced ==
    /\ userOps < MaxUserOps
    /\ userOps' = userOps + 1
    /\ SyncNowEnabled
    /\ OutRoom
    /\ IF withinMinInterval
       THEN /\ retryTimeoutRef' = TRUE
            /\ UNCHANGED <<translatingRef, isTranslating, withinMinInterval, translateCalls>>
       ELSE PerformTranslationBody(TRUE, retryTimeoutRef)
    /\ UNCHANGED cycle
    /\ UNCHANGED hookVars
    /\ UNCHANGED <<translatedText, refinedRef, processedRef, refiningInProgressRef,
                   batchFileProcessing, refineTimeoutRef, refineArmedText, refineCalls, aiError,
                   activeSessionId, storage>>

\* onOptimize: performTranslation(true), the force sync.
forceSync ==
    /\ userOps < MaxUserOps
    /\ userOps' = userOps + 1
    /\ SyncNowEnabled
    /\ OutRoom
    /\ PerformTranslationBody(TRUE, retryTimeoutRef)
    /\ UNCHANGED cycle
    /\ UNCHANGED hookVars
    /\ UNCHANGED <<translatedText, refinedRef, processedRef, refiningInProgressRef,
                   batchFileProcessing, refineTimeoutRef, refineArmedText, refineCalls, aiError,
                   activeSessionId, storage>>

\* minIntervalRef milliseconds have passed since lastRequestTimeRef.
minIntervalElapses ==
    /\ withinMinInterval
    /\ withinMinInterval' = FALSE
    /\ UNCHANGED hookVars
    /\ UNCHANGED <<translatedText, refinedRef, processedRef, refiningInProgressRef,
                   translatingRef, isTranslating, batchFileProcessing, refineTimeoutRef, refineArmedText,
                   retryTimeoutRef, cycle, refineCalls, translateCalls, aiError, activeSessionId,
                   storage, userOps>>

\* TranslatedAppend joining onto the output as it stands, untrimmed.
TranslatedAppend_KeepsTail(prev, val) ==
    LET sep == IF Len(prev) > 0 /\ ~EndsWithNewline(prev) THEN <<"\n">> ELSE <<>>
    IN  prev \o sep \o val

\* setTranslatedText(prev => ...) of a successful translate call.
TranslatedAppend(prev, val) ==
    LET p == TrimEnd(prev)
        sep == IF Len(p) > 0 /\ ~EndsWithNewline(p) THEN <<"\n">> ELSE <<>>
    IN  p \o sep \o val

\* TranslateAdvance reading refinedRef when the call completes.
TranslateAdvance_Current(call) == refinedRef

\* Where a successful translate call puts processedRef.
TranslateAdvance(call) == call.endPoint

\* The service answers a translate call; try body + finally.
translateSucceeds(i, resText) ==
    /\ i \in 1..Len(translateCalls)
    /\ translateCalls' = RemoveAt(translateCalls, i)
    /\ IF resText # <<>> /\ Trim(resText) # <<>>
       THEN /\ translatedText' = TranslatedAppend(translatedText, Trim(resText))
            /\ processedRef' = TranslateAdvance(translateCalls[i])
            /\ aiError' = NoError
       ELSE UNCHANGED <<translatedText, processedRef, aiError>>
    /\ translatingRef' = FALSE
    /\ isTranslating' = FALSE
    /\ UNCHANGED hookVars
    /\ UNCHANGED <<refinedRef, refiningInProgressRef, batchFileProcessing,
                   withinMinInterval, refineTimeoutRef, refineArmedText, retryTimeoutRef, cycle, refineCalls,
                   activeSessionId, storage, userOps>>

\* translateFails with the translated cursor moved to the refined cursor.
translateFails_Advances(i, kind) ==
    /\ i \in 1..Len(translateCalls)
    /\ translateCalls' = RemoveAt(translateCalls, i)
    /\ aiError' = Advisory
    /\ translatingRef' = FALSE
    /\ isTranslating' = FALSE
    /\ processedRef' = refinedRef
    /\ UNCHANGED hookVars
    /\ UNCHANGED <<translatedText, refinedRef, refiningInProgressRef,
                   batchFileProcessing, withinMinInterval, refineTimeoutRef, refineArmedText,
                   retryTimeoutRef, cycle, refineCalls, activeSessionId, storage, userOps>>

\* The service rejects a translate call; catch + finally.
translateFails(i, kind) ==
    /\ i \in 1..Len(translateCalls)
    /\ translateCalls' = RemoveAt(translateCalls, i)
    /\ aiError' = Advisory
    /\ translatingRef' = FALSE
    /\ isTranslating' = FALSE
    /\ UNCHANGED hookVars
    /\ UNCHANGED <<translatedText, refinedRef, processedRef, refiningInProgressRef,
                   batchFileProcessing, withinMinInterval, refineTimeoutRef, refineArmedText,
                   retryTimeoutRef, cycle, refineCalls, activeSessionId, storage, userOps>>

(***************************************************************************)
(* User operations of App: edits, Clear, sessions, audio upload.           *)
(***************************************************************************)
\* What the user may leave in the source textarea: all of it deleted.
SourceEdits == {<<>>}

\* TranscriptArea onChange={setText}.
editSource(value) ==
    /\ userOps < MaxUserOps
    /\ userOps' = userOps + 1
    /\ value # text
    /\ text' = value
    /\ UNCHANGED <<status, listening, interimText, lastLengthRef>>
    /\ UNCHANGED providerVars
    /\ UNCHANGED <<translatedText, refinedRef, processedRef, refiningInProgressRef,
                   translatingRef, isTranslating, batchFileProcessing, withinMinInterval,
                   refineCalls, translateCalls, aiError, activeSessionId, storage>>
    /\ Effects

\* The user types in the translation area: onChange={setTranslatedText}.
editTranslatedTo(v) ==
    /\ userOps < MaxUserOps
    /\ userOps' = userOps + 1
    /\ translatedText # v
    /\ translatedText' = v
    /\ UNCHANGED hookVars
    /\ UNCHANGED <<refinedRef, processedRef, refiningInProgressRef, translatingRef,
                   isTranslating, batchFileProcessing, withinMinInterval, refineTimeoutRef,
                   refineArmedText, retryTimeoutRef, cycle, refineCalls, translateCalls, aiError,
                   activeSessionId, storage>>

\* TranscriptArea onChange={setTranslatedText}: the user empties the output.
editTranslated ==
    /\ userOps < MaxUserOps
    /\ userOps' = userOps + 1
    /\ translatedText # <<>>
    /\ translatedText' = <<>>
    /\ UNCHANGED hookVars
    /\ UNCHANGED <<refinedRef, processedRef, refiningInProgressRef, translatingRef,
                   isTranslating, batchFileProcessing, withinMinInterval, refineTimeoutRef, refineArmedText,
                   retryTimeoutRef, cycle, refineCalls, translateCalls, aiError, activeSessionId,
                   storage>>

\* onClear: clearTranscript() and both cursors back to 0.
onClear ==
    /\ userOps < MaxUserOps
    /\ userOps' = userOps + 1
    /\ text' = <<>>
    /\ interimText' = <<>>
    /\ lastLengthRef' = 0
    /\ refinedRef' = 0
    /\ processedRef' = 0
    /\ refineCalls' = MarkStale(refineCalls)
    /\ translateCalls' = MarkStale(translateCalls)
    /\ UNCHANGED <<status, listening>>
    /\ UNCHANGED providerVars
    /\ UNCHANGED <<translatedText, refiningInProgressRef, translatingRef, isTranslating,
                   batchFileProcessing, withinMinInterval, aiError, activeSessionId,
                   storage>>
    /\ Effects

\* The SessionData that saveCurrentToStorage writes.
SessionSnapshot ==
    [present |-> TRUE, text |-> text, translatedText |-> translatedText,
     processedIndex |-> processedRef]

\* The cursors handleSelectSession restores from stored SessionData.
LoadedRefined(data) == Len(data.text)
LoadedProcessed(data) == data.processedIndex

\* handleSelectSession(id): save the active session if there is one, then load
\* (or start) session id.
handleSelectSession(id) ==
    /\ userOps < MaxUserOps
    /\ userOps' = userOps + 1
    /\ storage' = IF activeSessionId # NoSession
                  THEN [storage EXCEPT ![activeSessionId] = SessionSnapshot]
                  ELSE storage
    /\ activeSessionId' = id
    /\ LET data == storage'[id]
       IN  IF data.present
           THEN /\ text' = data.text
                /\ translatedText' = data.translatedText
                /\ processedRef' = LoadedProcessed(data)
                /\ refinedRef' = LoadedRefined(data)
           ELSE /\ text' = <<>>
                /\ translatedText' = <<>>
                /\ processedRef' = 0
                /\ refinedRef' = 0
    /\ refineCalls' = MarkStale(refineCalls)
    /\ translateCalls' = MarkStale(translateCalls)
    /\ UNCHANGED <<status, listening, interimText, lastLengthRef>>
    /\ UNCHANGED providerVars
    /\ UNCHANGED <<refiningInProgressRef, translatingRef, isTranslating,
                   batchFileProcessing, withinMinInterval, aiError>>
    /\ Effects

\* handleAudioBatchUpload up to its first await; the user uploads one file at
\* a time.
audioUploadStarts ==
    /\ userOps < MaxUserOps
    /\ userOps' = userOps + 1
    /\ ~batchFileProcessing
    /\ batchFileProcessing' = TRUE
    /\ isTranslating' = TRUE
    /\ aiError' = NoError
    /\ UNCHANGED hookVars
    /\ UNCHANGED <<translatedText, refinedRef, processedRef, refiningInProgressRef,
                   translatingRef, withinMinInterval, refineTimeoutRef, refineArmedText, retryTimeoutRef, cycle,
                   refineCalls, translateCalls, activeSessionId, storage>>

UploadLabel ==
    <<"\n", "[", "U", "P", "L", "O", "A", "D", "E", "D", " ", "A", "U", "D", "I", "O",
      "]", ":", " ">>
UploadOutcomes == {"failed", "empty", "text"}
UploadTranscript == <<"h", "i">>

\* handleAudioBatchUpload after the transcription settles; try/catch + finally.
\* A transcription is delivered only when the buffer stays within MaxText.
audioUploadSettles(outcome) ==
    /\ batchFileProcessing
    /\ batchFileProcessing' = FALSE
    /\ isTranslating' = FALSE
    /\ aiError' = IF outcome = "failed" THEN "Audio processing failed." ELSE aiError
    /\ IF outcome = "text"
       THEN /\ Len(text \o UploadLabel \o UploadTranscript) <= MaxText
            /\ text' = text \o UploadLabel \o UploadTranscript
       ELSE text' = text
    /\ UNCHANGED <<status, listening, interimText, lastLengthRef>>
    /\ UNCHANGED providerVars
    /\ UNCHANGED <<translatedText, refinedRef, processedRef, refiningInProgressRef,
                   translatingRef, withinMinInterval, refineCalls, translateCalls,
                   activeSessionId, storage, userOps>>
    /\ Effects

(***************************************************************************)
(* Specifications.  Each one lets the environment raise a subset of the    *)
(* program's events; every behaviour of each is a behaviour of the program.*)
(***************************************************************************)
\* What the completion service and the timers do on their own.
PipelineNext ==
    \/ \E c \in FinalChunks : onresultFinal(c)
    \/ silenceCommit
    \/ refineEnglishTranscript
    \/ \E i \in 1..Len(refineCalls), k \in FailureKinds : refineRetry(i, k)
    \/ \E i \in 1..Len(refineCalls), k \in FailureKinds : refineFails(i, k)
    \/ \E i \in 1..Len(refineCalls), r \in RefineResponses : refineSucceeds(i, r)
    \/ performTranslation
    \/ minIntervalElapses
    \/ \E i \in 1..Len(translateCalls), r \in TranslateResponses : translateSucceeds(i, r)
    \/ \E i \in 1..Len(translateCalls), k \in FailureKinds : translateFails(i, k)

\* The pipeline of one session: a recording that is started and never paused,
\* with the user editing, clearing, force-syncing and uploading audio.
Next ==
    \/ startRecording
    \/ PipelineNext
    \/ forceSync
    \/ \E v \in SourceEdits : editSource(v)
    \/ editTranslated
    \/ onClear
    \/ audioUploadStarts
    \/ \E o \in UploadOutcomes : audioUploadSettles(o)

Spec == Init /\ [][Next]_vars

\* The speech hook alone: recording controls, provider events, the silence
\* committer and the velocity estimator, with no completion call dispatched.
HookNext ==
    \/ startRecording
    \/ pauseRecording
    \/ stopRecording
    \/ streamEnds
    \/ onend
    \/ onerror
    \/ restartTimerFires
    \/ \E c \in FinalChunks : onresultFinal(c)
    \/ \E c \in InterimChunks : onresultInterim(c)
    \/ silenceCommit
    \/ velocitySample
    \/ \E v \in SourceEdits : editSource(v)
    \/ onClear

HookSpec == Init /\ [][HookNext]_vars

\* The pipeline with the user switching between stored sessions.
SessionNext ==
    \/ startRecording
    \/ \E c \in FinalChunks : onresultFinal(c)
    \/ silenceCommit
    \/ refineEnglishTranscript
    \/ \E i \in 1..Len(refineCalls), k \in FailureKinds : refineFails(i, k)
    \/ \E i \in 1..Len(refineCalls), r \in RefineResponses : refineSucceeds(i, r)
    \/ performTranslation
    \/ minIntervalElapses
    \/ \E i \in 1..Len(translateCalls), r \in TranslateResponses : translateSucceeds(i, r)
    \/ \E i \in 1..Len(translateCalls), k \in FailureKinds : translateFails(i, k)
    \/ \E id \in SessionIds : handleSelectSession(id)

SessionSpec == Init /\ [][SessionNext]_vars

\* The Segmenter on longer finalized chunks, each arriving while the buffer
\* holds at most MaxSegPrev characters, the user clearing in between.
SegmenterNext ==
    \/ startRecording
    \/ \E c \in SegmenterChunks :
          Len(text) <= MaxSegPrev /\ onresultFinalWithin(c, MaxSegText)
    \/ onClear

SegmenterSpec == Init /\ [][SegmenterNext]_vars

\* Finalized chunks that grow an empty buffer by 8, 10, 30, 31, 40, 41 and 50
\* characters: the speech velocities on and around the limits of the pipeline.
VelocityWordLists ==
    { <<8>>, <<10>>, <<15, 14>>, <<15, 15>>, <<15, 15, 8>>, <<15, 15, 9>>, <<15, 15, 15, 2>> }
VelocityChunks == { Words(l) : l \in VelocityWordLists }

\* The refine stage under varying speech velocity: chunks of many lengths, the
\* velocity sampled in between, refine calls answered, the user clearing.
VelocityNext ==
    \/ startRecording
    \/ \E c \in VelocityChunks :
          Len(text) <= MaxSegPrev /\ onresultFinalWithin(c, MaxSegText)
    \/ velocitySample
    \/ refineEnglishTranscript
    \/ \E i \in 1..Len(refineCalls), r \in RefineResponses : refineSucceeds(i, r)
    \/ onClear

VelocitySpec == Init /\ [][VelocityNext]_vars

\* What the user may leave in the source textarea ahead of a silence: blank
\* buffers, and text followed by spaces and breaks.
SilenceEdits ==
    { <<" ">>, <<"\n">>, <<" ", "\n">>, <<"h", "i", " ">>, <<"h", "i", "\n", "\n">>,
      <<"h", "i", " ", "\n", " ">> }

\* The silence committer: speech and user edits while recording and paused.
SilenceNext ==
    \/ startRecording
    \/ pauseRecording
    \/ \E c \in FinalChunks : onresultFinal(c)
    \/ \E c \in InterimChunks : onresultInterim(c)
    \/ silenceCommit
    \/ \E v \in SilenceEdits : editSource(v)
    \/ onClear

SilenceSpec == Init /\ [][SilenceNext]_vars

\* Recording that is paused, stopped and resumed, the user editing the
\* transcript in between and the velocity sampled while recording.
ResumeNext ==
    \/ startRecording
    \/ pauseRecording
    \/ stopRecording
    \/ \E c \in FinalChunks : onresultFinal(c)
    \/ velocitySample
    \/ \E v \in SilenceEdits : editSource(v)
    \/ onClear

ResumeSpec == Init /\ [][ResumeNext]_vars

\* The velocity interval against the clock: speech arriving, silences
\* committed and time passing in ticks of 1/TicksPerSecond of a second.
SamplingNext ==
    \/ startRecording
    \/ pauseRecording
    \/ \E c \in FinalChunks : onresultFinal(c)
    \/ silenceCommit
    \/ timePasses
    \/ intervalFires
    \/ onClear

SamplingSpec == Init /\ [][SamplingNext]_vars

\* The automatic pipeline from an empty buffer: speech, silence commits and
\* the two completion stages, with no force sync, edit, clear, upload or
\* session switch.
AutoNext ==
    \/ startRecording
    \/ PipelineNext

AutoSpec == Init /\ [][AutoNext]_vars

\* Speech and silences alone: the Segmenter appending finalized chunks, each
\* arriving while the buffer holds at most MaxCommitPrev characters, and the
\* silence committer putting its break behind them.
CommitNext ==
    \/ startRecording
    \/ \E c \in SegmenterChunks :
          Len(text) <= MaxCommitPrev /\ onresultFinalWithin(c, MaxSegText)
    \/ silenceCommit

CommitSpec == Init /\ [][CommitNext]_vars

\* The automatic pipeline with the user editing the translation area.
OutputNext ==
    \/ startRecording
    \/ PipelineNext
    \/ \E v \in TranslatedEdits : editTranslatedTo(v)

OutputSpec == Init /\ [][OutputNext]_vars

(***************************************************************************)
(* Properties.                                                             *)
(***************************************************************************)
IsPrefix(p, s) == Len(p) <= Len(s) /\ SubSeq(s, 1, Len(p)) = p
IsSuffix(p, s) == Len(p) <= Len(s) /\ SubSeq(s, Len(s) - Len(p) + 1, Len(s)) = p

\* The step dispatches a translate call; the new call is the last of the list.
TranslateDispatched == Len(translateCalls') = Len(translateCalls) + 1
NewTranslateCall == translateCalls'[Len(translateCalls')]

\* C1: after every step translatedUpTo <= refinedUpTo <= length(text).
C1_CursorOrder == processedRef <= refinedRef /\ refinedRef <= Len(text)

\* What has been appended behind the text the outstanding refine call i
\* captured at dispatch (`raw`), when the buffer has only grown since.
AppendedSinceDispatch(i) ==
    IF ~refineCalls[i].stale /\ IsPrefix(refineCalls[i].raw, text)
    THEN Trim(SliceFrom(text, Len(refineCalls[i].raw)))
    ELSE <<>>

\* C2: text the Segmenter appended to the buffer while a refine call was in
\* flight is still at the end of the buffer after that call's refined text has
\* been written.
C2_AppendSurvivesRefine ==
    [][\A i \in 1..Len(refineCalls) : \A r \in RefineResponses :
          (Trim(r) # <<>> /\ AppendedSinceDispatch(i) # <<>> /\ refineSucceeds(i, r))
              => IsSuffix(AppendedSinceDispatch(i), TrimEnd(text'))]_vars

\* C3: at most one refine call is outstanding, through all of its backoff
\* retries; while one is outstanding the in-flight flag is set and no refine
\* trigger is pending, so a buffer change in that time dispatches and queues
\* nothing.
C3_RefineSingleFlight ==
    /\ Len(refineCalls) <= 1
    /\ refineCalls # <<>> => refiningInProgressRef /\ ~refineTimeoutRef

\* A refine call is in a backoff retry and the buffer has since grown past the
\* arming margin, yet nothing else was dispatched or armed.
C3_Witness ==
    /\ Len(refineCalls) = 1
    /\ refineCalls[1].retries < RetryCount
    /\ AppendedSinceDispatch(1) # <<>>
    /\ Len(text) > refinedRef + RefineArmMargin
    /\ ~refineTimeoutRef

\* C4: at most one translate call is outstanding, force sync included.
C4_TranslateSingleFlight == Len(translateCalls) <= 1

\* C5: a translate call that is applied starts at or above translatedUpTo, so
\* no buffer index is covered by two applied translate calls.
C5_NoRetranslation ==
    [][\A i \in 1..Len(translateCalls) : \A r \in TranslateResponses :
          (Trim(r) # <<>> /\ ~translateCalls[i].stale /\ translateSucceeds(i, r))
              => translateCalls[i].start >= processedRef]_vars

\* C6: a translate call that succeeds with non-empty text sets translatedUpTo
\* to the end offset captured at its dispatch, whatever refinedUpTo and the
\* buffer length have become since.
C6_AdvanceToCapturedEnd ==
    [][\A i \in 1..Len(translateCalls) : \A r \in TranslateResponses :
          (Trim(r) # <<>> /\ translateSucceeds(i, r))
              => processedRef' = translateCalls[i].endPoint]_vars

\* An automatic translate call has just been applied after refinedUpTo grew
\* during its flight: translatedUpTo stayed at the captured end, below
\* refinedUpTo, and the completion armed no new trigger.
C6_Witness ==
    /\ userOps = 0
    /\ translateCalls = <<>>
    /\ translatedText # <<>>
    /\ aiError = NoError
    /\ 0 < processedRef
    /\ processedRef < refinedRef
    /\ ~retryTimeoutRef

C8_TranslateRetriesRateLimit ==
    [][\A i \in 1..Len(translateCalls) :
          translateFails(i, "rate")
              => Len(translateCalls') = Len(translateCalls) /\ aiError' = aiError]_vars

\* C9: the completion of a call dispatched before a Clear or a session switch
\* changes neither buffer nor cursor.
C9_StaleCompletionInert ==
    [][/\ \A i \in 1..Len(translateCalls) : \A r \in TranslateResponses :
            (translateCalls[i].stale /\ translateSucceeds(i, r))
                => UNCHANGED <<text, translatedText, refinedRef, processedRef>>
       /\ \A i \in 1..Len(refineCalls) : \A r \in RefineResponses :
            (refineCalls[i].stale /\ refineSucceeds(i, r))
                => UNCHANGED <<text, translatedText, refinedRef, processedRef>>]_vars

\* C10: no step other than Clear or a session load lowers a cursor.
C10_CursorsMonotone ==
    [][(refinedRef' < refinedRef \/ processedRef' < processedRef)
          => (onClear \/ \E id \in SessionIds : handleSelectSession(id))]_vars

(***************************************************************************)
(* Segmenter properties, checked under SegmenterSpec.                      *)
(***************************************************************************)
\* The lines of a buffer: what stands between its newlines.
RECURSIVE LinesOf(_)
LinesOf(s) ==
    IF \A i \in 1..Len(s) : s[i] # "\n" THEN <<s>>
    ELSE LET n == CHOOSE i \in 1..Len(s) :
                      s[i] = "\n" /\ \A j \in 1..(i - 1) : s[j] # "\n"
         IN  <<SubSeq(s, 1, n - 1)>> \o LinesOf(SubSeq(s, n + 1, Len(s)))

LineSet(s) == {LinesOf(s)[k] : k \in 1..Len(LinesOf(s))}
HasSpace(s) == \E i \in 1..Len(s) : s[i] = " "

\* C11: every fragment the Segmenter has put into the buffer is 1 to 15
\* characters long, unless it is one word longer than 15; none is empty.
C11_FragmentBound ==
    text # <<>> =>
        \A k \in 1..Len(LinesOf(text)) :
            LET fragment == LinesOf(text)[k]
            IN  /\ Len(fragment) >= 1
                /\ Len(fragment) <= 15 \/ ~HasSpace(fragment)

\* A chunk was cut into three or more fragments, one of them exactly 15 long.
C11_Witness ==
    /\ Len(LinesOf(text)) >= 3
    /\ \E k \in 1..Len(LinesOf(text)) : Len(LinesOf(text)[k]) = 15

\* C12: a finalized chunk that is one word longer than 15 characters is
\* emitted as one oversized fragment.
C12_LongWordKept ==
    [][\A c \in SegmenterChunks :
          (Len(c) > 15 /\ ~HasSpace(c) /\ onresultFinalWithin(c, MaxSegText))
              => LinesOf(text')[Len(LinesOf(text'))] = capitalize(c)]_vars

\* The indices from 5 to 15 at which str has a space.
SpacesInWindow(str) == {i \in 5..15 : i < Len(str) /\ str[i + 1] = " "}

\* C13: each time the Segmenter cuts an over-long remainder it cuts at the
\* last space at an index from 5 to 15 when there is one, and at exactly 15
\* when there is none; the piece before the cut becomes a fragment.
C13_CutAtLastSpace ==
    [][\A c \in SegmenterChunks :
          onresultFinalWithin(c, MaxSegText) =>
              LET sentences == sentenceRegex(Trim(c))
              IN  \A k \in 1..Len(sentences) :
                    LET cuts == LoopStates(Trim(sentences[k]))
                    IN  \A j \in 1..Len(cuts) :
                          LET str == cuts[j]
                              cut == splitIndex(str)
                          IN  /\ IF SpacesInWindow(str) # {}
                                 THEN /\ cut \in SpacesInWindow(str)
                                      /\ \A i \in SpacesInWindow(str) : i <= cut
                                 ELSE cut = 15
                              /\ capitalize(Trim(Slice(str, 0, cut))) \in LineSet(text')]_vars

\* The buffer holds a chunk that was cut at a space inside the window, and
\* then cut again at 15 for want of a space.
C13_Witness ==
    \E c \in SegmenterChunks :
        /\ Len(LoopStates(c)) >= 2
        /\ SpacesInWindow(LoopStates(c)[1]) # {}
        /\ SpacesInWindow(LoopStates(c)[2]) = {}
        /\ text = AppendFinal(<<>>, c)

(***************************************************************************)
(* Recognition session properties, checked under HookSpec.                 *)
(***************************************************************************)
\* C14: of the errors the provider emits in a row while recording, with no
\* result in between, the first five schedule one delayed reconnect each and
\* the sixth schedules none.
C14_FiveReconnects ==
    [][(status = "RECORDING" /\ onerror)
          => restartTimers' = restartTimers + (IF errorRun' <= 5 THEN 1 ELSE 0)]_vars

\* Six errors in a row have arrived while recording and five reconnects are
\* scheduled, none of them fired yet.
C14_Witness ==
    /\ status = "RECORDING"
    /\ errorRun = 6
    /\ restartTimers = 5
    /\ restartCount = 5

\* C15: once the restart counter is at the cap while recording and every
\* scheduled reconnect has been made, the end of the provider's stream is
\* not followed by another automatic start().
C15_NoRestartAfterCap ==
    [][(status = "RECORDING" /\ restartCount = RestartCap /\ restartTimers = 0 /\ onend)
          => ~listening']_vars

\* C16: a refine call that fails for good (a failure retryWithBackoff does not
\* retry, or one that arrives when the retries are used up) leaves the
\* transcript, both cursors and the output as they were; the call is gone and
\* the in-flight flag is false.
C16_RefineFailureInert ==
    [][\A i \in 1..Len(refineCalls), k \in FailureKinds :
          refineFails(i, k)
              => /\ UNCHANGED <<text, refinedRef, processedRef, translatedText>>
                 /\ ~refiningInProgressRef'
                 /\ Len(refineCalls') = Len(refineCalls) - 1]_vars

\* A refine call has used up its three retries (waits of 1000, 2000 and
\* 4000 ms) while text is waiting to be refined: its next failure is final.
C16_Witness ==
    \E i \in 1..Len(refineCalls) :
        /\ refineCalls[i].retries = 0
        /\ refineCalls[i].waits = <<1000, 2000, 4000>>
        /\ refiningInProgressRef
        /\ Len(text) > refinedRef

\* C17: a translate call that fails with a failure other than a rate limit is
\* not called again; transcript, output and both cursors stay as they were,
\* the advisory is set and the in-flight flag is false.
C17_TranslateFailureInert ==
    [][\A i \in 1..Len(translateCalls) :
          translateFails(i, "other")
              => /\ UNCHANGED <<text, translatedText, refinedRef, processedRef>>
                 /\ Len(translateCalls') = Len(translateCalls) - 1
                 /\ aiError' = Advisory
                 /\ ~translatingRef']_vars

\* A translate call has failed: the advisory is shown, nothing is in flight
\* and the refined text it was sent is still waiting to be translated.
C17_Witness ==
    /\ aiError = Advisory
    /\ translateCalls = <<>>
    /\ ~translatingRef
    /\ processedRef < refinedRef
    /\ translatedText = <<>>

\* C18: the delay the orchestration effect arms the translate timeout with is
\* 50 ms when the velocity is above 40 and 100 ms otherwise.
C18_TranslateCadence ==
    [][((text' # text \/ velocity' # velocity) /\ retryTimeoutRef')
          => cycle' = (IF velocity' > 40 THEN 50 ELSE 100)]_vars

\* The translate timeout is armed with 50 ms at a velocity of 50.
C18_Witness ==
    /\ retryTimeoutRef
    /\ velocity = 50
    /\ cycle = 50
    /\ refinedRef > processedRef

\* A step in which refineEnglishTranscript starts a refine call.
RefineDispatched == Len(refineCalls') = Len(refineCalls) + 1

\* C19: a refine call is started only when none is in flight and the
\* unrefined length, length(text) - refinedUpTo, is strictly above the
\* threshold: 5 at a velocity of at most 30, 10 at a velocity above 30.
C19_RefineAboveThreshold ==
    [][RefineDispatched
          => /\ ~refiningInProgressRef
             /\ Len(text) - refinedRef > (IF velocity > 30 THEN 10 ELSE 5)]_vars

\* C19, amended: a refine call is started only when none is in flight, the
\* unrefined tail is more than 5 characters long and its trimmed length is at
\* least the threshold: 5 at a velocity of at most 30, 10 at a velocity
\* above 30.
C19_RefineAtThreshold ==
    [][RefineDispatched
          => /\ ~refiningInProgressRef
             /\ Len(text) - refinedRef > 5
             /\ Len(Trim(SliceFrom(text, refinedRef)))
                    >= (IF velocity > 30 THEN 10 ELSE 5)]_vars

\* A refine call is in flight for an unrefined tail of exactly 10 characters,
\* started at a velocity above 30.
C19_Witness ==
    /\ velocity > 30
    /\ refiningInProgressRef
    /\ refinedRef = 0
    /\ Len(text) = 10
    /\ \E i \in 1..Len(refineCalls) : refineCalls[i].raw = text /\ ~refineCalls[i].stale

\* C20: a pending refine timeout always belongs to the current buffer, every
\* change of the buffer having cancelled the one before, so a refine call is
\* started only by a timeout armed since the last change and reads the
\* unrefined tail of the buffer as it is at dispatch.
C20_RefineDebounced ==
    /\ [](refineTimeoutRef => refineArmedText = text)
    /\ [][RefineDispatched
            => /\ refineTimeoutRef
               /\ refineCalls'[Len(refineCalls')].raw = text]_vars

\* A refine call is in flight for the whole of a buffer that changed after the
\* refine timeout was first armed for it.
C20_Witness ==
    /\ refiningInProgressRef
    /\ refinedRef = 0
    /\ Len(LinesOf(text)) >= 2
    /\ LinesOf(text)[2] # <<>>
    /\ \E i \in 1..Len(refineCalls) : refineCalls[i].raw = text /\ ~refineCalls[i].stale

(***************************************************************************)
(* Translate scheduling properties, checked under Spec.                    *)
(***************************************************************************)
\* C21: an automatic translate call is dispatched only when the minimum
\* interval since the last dispatched call has elapsed; a trigger that fires
\* before that, with no call in flight, dispatches nothing and leaves a
\* timeout pending for the rest of the interval.
C21_MinimumSpacing ==
    [][/\ (TranslateDispatched /\ ~NewTranslateCall.forced) => ~withinMinInterval
       /\ (performTranslation /\ ~translatingRef /\ withinMinInterval)
             => (retryTimeoutRef' /\ translateCalls' = translateCalls)]_vars

\* The translate timeout is pending inside the minimum interval of a call
\* that has completed, with refined text waiting: the trigger will be early.
C21_Witness ==
    /\ withinMinInterval
    /\ retryTimeoutRef
    /\ ~translatingRef
    /\ translateCalls = <<>>
    /\ Trim(Slice(text, processedRef, refinedRef)) # <<>>

\* Refined text that is more than whitespace waits to be translated and no
\* translate call is in flight.
TranslateDue ==
    /\ refinedRef > processedRef
    /\ Trim(Slice(text, processedRef, refinedRef)) # <<>>
    /\ ~translatingRef

\* C22: whenever refined text waits to be translated and no translate call is
\* in flight, a translate call is on its way without another change of the
\* buffer or the velocity: the timeout that dispatches it is pending.
C22_TranslateTriggered == TranslateDue => retryTimeoutRef

(***************************************************************************)
(* Silence committer properties, checked under SilenceSpec and HookSpec.   *)
(***************************************************************************)
\* C23: the silence timeout turns a buffer with content into that content
\* without its trailing whitespace plus one newline, leaves an empty or blank
\* buffer as it is, and changes nothing when it fires again on its own result.
C23_SingleBreak ==
    [][silenceCommit
          => /\ text' = (IF Trim(text) # <<>> THEN TrimEnd(text) \o <<"\n">> ELSE text)
             /\ SilenceCommitText(text') = text']_vars

\* The timeout has fired on a buffer that ended in spaces and breaks, and the
\* timeout armed by that change has fired too without changing the buffer.
C23_Witness ==
    /\ status = "RECORDING"
    /\ interimText = <<>>
    /\ ~silenceTimer
    /\ text = <<"h", "i", "\n">>

\* C24: a silence timeout is pending only while the status is Recording and
\* the interim text is empty, so it commits only then; interim text, a pause
\* or a stop cancels it, and a change of the buffer leaves a timeout pending
\* only under those same conditions.
C24_SilenceOnlyWhenIdle ==
    /\ [](silenceTimer => (status = "RECORDING" /\ interimText = <<>>))
    /\ [][silenceCommit => (status = "RECORDING" /\ interimText = <<>>)]_vars
    /\ [][(interimText' # <<>> \/ status' # "RECORDING") => ~silenceTimer']_vars

\* Final text arrived while recording and interim text after it, before the
\* silence timeout fired: the buffer is left without its break.
C24_Witness ==
    /\ status = "RECORDING"
    /\ interimText # <<>>
    /\ ~silenceTimer
    /\ text # <<>>
    /\ ~EndsWithNewline(text)

(***************************************************************************)
(* Velocity estimator properties, checked under HookSpec.                  *)
(***************************************************************************)
\* What C25 says of the velocity and of its samples: the velocity is never
\* negative, a sample publishes max(0, length - baseline) and moves the
\* baseline to the length, and the velocity is 0 whenever not recording.
VelocitySampled ==
    /\ [](velocity >= 0)
    /\ [](status # "RECORDING" => velocity = 0)
    /\ [][velocitySample
            => /\ velocity' = (IF Len(text) > lastLengthRef
                               THEN Len(text) - lastLengthRef ELSE 0)
               /\ lastLengthRef' = Len(text)]_vars

\* C25: the velocity is never negative, every sample is max(0, length -
\* baseline) and moves the baseline, and whenever the status is not Recording
\* the velocity is 0 and the baseline is left unchanged.
C25_BaselineKept ==
    /\ VelocitySampled
    /\ [][status # "RECORDING" => lastLengthRef' = lastLengthRef]_vars

\* C25, amended: as C25, the baseline being left unchanged while not
\* recording by everything but Clear, which sets it to 0 in any status.
C25_BaselineKeptButClear ==
    /\ VelocitySampled
    /\ [][status # "RECORDING"
            => (lastLengthRef' = lastLengthRef \/ (onClear /\ lastLengthRef' = 0))]_vars

\* Recording was paused after a sample: the velocity is 0, the baseline is
\* where the sample left it and the buffer has not been cleared.
C25_Witness ==
    /\ status = "PAUSED"
    /\ velocity = 0
    /\ lastLengthRef > 0
    /\ lastLengthRef = Len(text)

\* C26: when recording is resumed after a pause or a stop the baseline is at
\* the length of the buffer, so that the first sample after it counts only the
\* characters added since and reports nothing of what changed while not
\* recording.
C26_NoSpikeOnResume ==
    [][(status \in {"PAUSED", "STOPPED"} /\ startRecording)
          => lastLengthRef' = Len(text')]_vars

\* C27: while recording the interval that publishes the velocity runs on its
\* own clock: a change of the buffer length does not put off the next sample.
C27_SampleEverySecond ==
    [][(status = "RECORDING" /\ status' = "RECORDING" /\ Len(text') # Len(text))
          => intervalAge' = intervalAge]_vars

(***************************************************************************)
(* Recording session properties, checked under HookSpec.                   *)
(***************************************************************************)
\* C28: while the status is not Recording, after a pause or a stop, nothing
\* starts the speech provider.
C28_NoStartWhilePaused ==
    [][(status \in {"PAUSED", "STOPPED"} /\ status' = status) => (listening' => listening)]_vars

\* C29: the restart counter stays within 0..5, is 0 after every result and
\* after every explicit start, and grows by exactly 1 with each error that
\* arrives while recording with the counter below the cap.
C29_RestartCounter ==
    /\ [](restartCount \in 0..5)
    /\ [][\A c \in FinalChunks : onresultFinal(c) => restartCount' = 0]_vars
    /\ [][\A c \in InterimChunks : onresultInterim(c) => restartCount' = 0]_vars
    /\ [][startRecording => restartCount' = 0]_vars
    /\ [][(onerror /\ status = "RECORDING" /\ restartCount < 5)
            => restartCount' = restartCount + 1]_vars

\* Errors have scheduled reconnects that are still pending and an interim
\* result has put the counter back to 0 since.
C29_Witness ==
    /\ status = "RECORDING"
    /\ restartTimers >= 2
    /\ restartCount = 0
    /\ interimText # <<>>

\* C30: the status changes only from Idle to Recording, between Recording and
\* Paused, and from Recording or Paused to Stopped.
C30_StatusEdges ==
    [][status' # status
          => <<status, status'>> \in { <<"IDLE", "RECORDING">>, <<"RECORDING", "PAUSED">>,
                                       <<"PAUSED", "RECORDING">>, <<"RECORDING", "STOPPED">>,
                                       <<"PAUSED", "STOPPED">> }]_vars

(***************************************************************************)
(* Segmenter loop and content properties, checked under SegmenterSpec.     *)
(***************************************************************************)
\* C31: the cutting loop ends for every finalized chunk: each pass cuts at an
\* index from 5 to 15 and leaves a remainder at least 5 characters shorter,
\* and a sentence of n characters gives at most ceil(n/5) fragments.
C31_LoopTerminates ==
    [][\A c \in SegmenterChunks :
          onresultFinalWithin(c, MaxSegText) =>
              LET sentences == sentenceRegex(Trim(c))
              IN  \A k \in 1..Len(sentences) :
                    LET str0 == Trim(sentences[k])
                        cuts == LoopStates(str0)
                    IN  /\ \A j \in 1..Len(cuts) :
                              /\ splitIndex(cuts[j]) \in 5..15
                              /\ Len(Trim(SliceFrom(cuts[j], splitIndex(cuts[j]))))
                                    <= Len(cuts[j]) - 5
                        /\ 5 * Len(ForceSplit(str0)) < Len(str0) + 5]_vars

\* The buffer holds a chunk that the loop cut three times or more.
C31_Witness ==
    \E c \in SegmenterChunks :
        /\ Len(LoopStates(c)) >= 3
        /\ text = AppendFinal(<<>>, c)

\* The characters of s that are not whitespace, letters in lower case.
toLowerCase(c) ==
    IF \E i \in 1..26 : UpperCase[i] = c
    THEN LowerCase[CHOOSE i \in 1..26 : UpperCase[i] = c]
    ELSE c
Squeezed(s) ==
    LET kept == SelectSeq(s, LAMBDA ch : ch \notin Whitespace)
    IN  [i \in 1..Len(kept) |-> toLowerCase(kept[i])]

\* C37: the Segmenter loses no characters: what a finalized chunk adds to the
\* buffer is, whitespace and capitalization apart, the chunk.
C37_NoCharacterLost ==
    [][\A c \in SegmenterChunks :
          onresultFinalWithin(c, MaxSegText)
              => Squeezed(text') = Squeezed(text) \o Squeezed(c)]_vars

(***************************************************************************)
(* Force sync, retry and flag properties, checked under Spec.              *)
(***************************************************************************)
\* C32: a force sync dispatches at once, whatever the minimum interval and
\* the cadence timeout are, a translate call for the buffer from
\* translatedUpTo to its end, and nothing when that slice is empty or blank;
\* a forced call that succeeds puts translatedUpTo at the buffer length
\* captured at dispatch.
C32_ForceSync ==
    /\ [][forceSync
            => IF Trim(Slice(text, processedRef, Len(text))) # <<>>
               THEN /\ TranslateDispatched
                    /\ NewTranslateCall.forced
                    /\ NewTranslateCall.start = processedRef
                    /\ NewTranslateCall.endPoint = Len(text)
               ELSE translateCalls' = translateCalls]_vars
    /\ [][\A i \in 1..Len(translateCalls) : \A r \in TranslateResponses :
            (translateCalls[i].forced /\ Trim(r) # <<>> /\ translateSucceeds(i, r))
                => processedRef' = translateCalls[i].endPoint]_vars

\* A forced call is outstanding for the whole buffer, part of it unrefined,
\* dispatched inside the minimum interval of the call before it.
C32_Witness ==
    /\ withinMinInterval
    /\ translatedText # <<>>
    /\ \E i \in 1..Len(translateCalls) :
          /\ translateCalls[i].forced
          /\ ~translateCalls[i].stale
          /\ translateCalls[i].endPoint = Len(text)
          /\ translateCalls[i].endPoint > refinedRef

(***************************************************************************)
(* Session round trip, checked under SessionSpec.                          *)
(***************************************************************************)
\* C33: saving a session and loading it again gives back the buffer, the
\* output and both cursors as they were saved; selecting the active session
\* does the two in one step.
C33_SaveLoadRoundTrip ==
    [][\A id \in SessionIds :
          (id = activeSessionId /\ handleSelectSession(id))
              => /\ text' = text
                 /\ translatedText' = translatedText
                 /\ processedRef' = processedRef
                 /\ refinedRef' = refinedRef]_vars

\* C34: retryWithBackoff calls at most 4 times, waiting 1000, 2000 and 4000 ms
\* before the retries; it calls again only after a rate-limited failure with
\* a retry left, gives up at once on any other failure, and a success ends
\* the call.
C34_RetryWithBackoff ==
    /\ [](\A i \in 1..Len(refineCalls) :
            /\ IsPrefix(refineCalls[i].waits, <<1000, 2000, 4000>>)
            /\ refineCalls[i].retries = 3 - Len(refineCalls[i].waits)
            /\ Len(refineCalls[i].waits) + 1 <= 4)
    /\ [][\A i \in 1..Len(refineCalls) : \A k \in FailureKinds :
            refineRetry(i, k)
                => /\ k = "rate"
                   /\ refineCalls[i].retries > 0
                   /\ Len(refineCalls') = Len(refineCalls)]_vars
    /\ [][\A i \in 1..Len(refineCalls) :
            refineFails(i, "rate") => refineCalls[i].retries = 0]_vars
    /\ [][\A i \in 1..Len(refineCalls) : \A r \in RefineResponses :
            refineSucceeds(i, r) => Len(refineCalls') = Len(refineCalls) - 1]_vars

\* A refine call has been rate-limited twice and waits for its third try.
C34_Witness ==
    \E i \in 1..Len(refineCalls) :
        /\ refineCalls[i].waits = <<1000, 2000>>
        /\ refineCalls[i].retries = 1

\* C35: for each stage the in-flight flag is true exactly while a call of
\* that stage is outstanding: refiningInProgressRef for the refiner and
\* translatingRef for the translator.
C35_InFlightFlags ==
    /\ refiningInProgressRef <=> (refineCalls # <<>>)
    /\ translatingRef <=> (translateCalls # <<>>)

\* C36: in the automatic pipeline started from an empty buffer (no force
\* sync, edit, clear or session switch) the cursors stay ordered in every
\* state: 0 <= translatedUpTo <= refinedUpTo <= length(text), also after a
\* whitespace-only refine response.
C36_AutoCursorOrder ==
    /\ 0 <= processedRef
    /\ processedRef <= refinedRef
    /\ refinedRef <= Len(text)

\* A whitespace-only refine response has been written behind translated text.
C36_Witness ==
    /\ processedRef > 0
    /\ refinedRef = Len(text)
    /\ text # <<>>
    /\ text[Len(text)] = " "

\* C38: with only Segmenter appends and silence commits from the empty
\* buffer, the buffer never holds two consecutive newlines and never ends
\* with whitespace other than a single newline; an append that follows a
\* commit break leaves exactly one newline between the old text and the
\* new fragment.
C38_SingleNewlines ==
    /\ [](/\ \A i \in 1..(Len(text) - 1) : ~(text[i] = "\n" /\ text[i + 1] = "\n")
          /\ \/ text = TrimEnd(text)
             \/ text = TrimEnd(text) \o <<"\n">>)
    /\ [][\A c \in SegmenterChunks :
            (EndsWithNewline(text) /\ onresultFinalWithin(c, MaxSegText))
                => LET n == Len(TrimEnd(text))
                   IN  /\ SubSeq(text', 1, n) = TrimEnd(text)
                       /\ text'[n + 1] = "\n"
                       /\ text'[n + 2] \notin Whitespace]_vars

\* A silence has been committed behind fragments the Segmenter put on
\* separate lines.
C38_Witness ==
    /\ EndsWithNewline(text)
    /\ \E i \in 1..(Len(text) - 1) : text[i] = "\n"
    /\ Len(text) <= MaxCommitPrev

\* C39 as stated: a translate call answered with text appends to the output:
\* the new output is the previous output without its trailing whitespace,
\* then exactly one newline when the previous output was non-empty, then the
\* trimmed translation; an empty or whitespace-only response leaves the
\* output and translatedUpTo unchanged.
C39_NewlineWhenNonEmpty ==
    [][\A i \in 1..Len(translateCalls) : \A r \in TranslateResponses :
        translateSucceeds(i, r)
            => IF Trim(r) # <<>>
               THEN translatedText' =
                        TrimEnd(translatedText)
                            \o (IF translatedText # <<>> THEN <<"\n">> ELSE <<>>)
                            \o Trim(r)
               ELSE UNCHANGED <<translatedText, processedRef>>]_vars

\* C39 amended: the single newline is there when the previous output without
\* its trailing whitespace is non-empty; a previous output of whitespace
\* only is replaced by the trimmed translation alone.
C39_AppendOnly ==
    [][\A i \in 1..Len(translateCalls) : \A r \in TranslateResponses :
        translateSucceeds(i, r)
            => IF Trim(r) # <<>>
               THEN /\ IsPrefix(TrimEnd(translatedText), translatedText')
                    /\ translatedText' =
                           TrimEnd(translatedText)
                               \o (IF TrimEnd(translatedText) # <<>> THEN <<"\n">> ELSE <<>>)
                               \o Trim(r)
               ELSE UNCHANGED <<translatedText, processedRef>>]_vars

\* A second translation has been appended on its own line.
C39_Witness ==
    /\ translatedText = <<"v", "\n", "v">>
    /\ processedRef > 0

\* C40: a refine response whose text is empty or whitespace-only leaves the
\* buffer and refinedUpTo unchanged, so that a refine completion never
\* deletes the unrefined tail without writing refined text in its place.
C40_BlankRefineInert ==
    [][\A i \in 1..Len(refineCalls) : \A r \in RefineResponses :
        (Trim(r) = <<>> /\ refineSucceeds(i, r))
            => UNCHANGED <<text, refinedRef>>]_vars

====
